---- MODULE Spec2Model ----
(***************************************************************************)
(* GitLab -> Airtable one-way sync (main.py).                              *)
(*                                                                         *)
(* The module-level configuration, the two remote stores and the steps of  *)
(* sync() are modelled.  Every remote call (Table.all, projects.get,       *)
(* issues.list, Table.create) is one step that either returns or raises.   *)
(* Runs are started one after the other by an external scheduler.          *)
(*                                                                         *)
(* Encoding of Python values: every field value of an issue is an integer  *)
(* code (Url, Title, ... below give pairwise distinct codes); 0 stands for *)
(* any falsy value; None is the empty string for names and NoFloor for an  *)
(* unset import_after.  A dict is a sequence of <<key, value>> pairs in    *)
(* insertion order.                                                        *)
(***************************************************************************)
EXTENDS Integers, Sequences, FiniteSets, TLC

\* ---------------------------------------------------------------- bounds
MaxIid == 2          \* the highest issue number of a project
NumProjects == 2     \* at most this many configured projects
MaxRuns == 2         \* runs the scheduler starts

\* ------------------------------------------------------- Python values
None == ""
NoFloor == 0 - 1

Truthy(v) == v # 0

Range(s) == {s[i] : i \in 1..Len(s)}

EmptyDict == <<>>

DictHas(d, k) == \E i \in 1..Len(d) : d[i][1] = k

DictSet(d, k, v) ==
    IF DictHas(d, k)
    THEN [i \in 1..Len(d) |-> IF d[i][1] = k THEN <<k, v>> ELSE d[i]]
    ELSE Append(d, <<k, v>>)

RECURSIVE DictFromPairs(_)
DictFromPairs(pairs) ==
    IF pairs = <<>> THEN EmptyDict
    ELSE LET n == Len(pairs)
         IN  DictSet(DictFromPairs(SubSeq(pairs, 1, n - 1)), pairs[n][1], pairs[n][2])

\* ------------------------------------------------------- upstream data
ProjectIds == 1..NumProjects

Url(p, i) == 10 * p + i
Title(p, i) == 100 + 10 * p + i
Labels(p, i) == 200 + i
Weight(p, i) == 300
Milestone(p, i) == 400 + p

Issue(p, i) ==
    [iid |-> i, web_url |-> Url(p, i), title |-> Title(p, i),
     labels |-> Labels(p, i), weight |-> Weight(p, i), milestone |-> Milestone(p, i)]

IssueListing(p, n) == [i \in 1..n |-> Issue(p, i)]

\* ------------------------------------------------------- configuration
GitlabFields == <<"title", "iid", "web_url", "labels", "weight", "milestone">>

FullMapping ==
    [title |-> "Name", iid |-> "Ticket", web_url |-> "Link",
     labels |-> "Labels", weight |-> "Weight", milestone |-> "Milestone"]

SparseMapping ==
    [title |-> None, iid |-> "Ticket", web_url |-> None,
     labels |-> None, weight |-> None, milestone |-> None]

SharedColumnMapping ==
    [title |-> "Name", iid |-> "Ticket", web_url |-> "Ticket",
     labels |-> None, weight |-> None, milestone |-> None]

FieldMappings == {FullMapping, SparseMapping, SharedColumnMapping}

Credentials ==
    { [api_key |-> "k", base_id |-> "b", table_id |-> "t", private_token |-> "p"],
      [api_key |-> "k", base_id |-> "b", table_id |-> "t", private_token |-> None] }

KeySelections == {"ticket_number", "url", "bogus", None}

Floors == {NoFloor, 1}

\* a project lists no issue, or the issues 1..MaxIid
ListingSizes == {0, MaxIid}

FloorChoices == UNION { [1..n -> Floors] : n \in 0..NumProjects }

DownstreamSeeds ==
    { ("Ticket" :> 1), ("Link" :> Url(1, 1)) }

\* the table before the first run: empty, or one record
InitialTables == {<<>>} \cup {<<fields>> : fields \in DownstreamSeeds}

VARIABLES
    credentials,                  \* the four credentials read from config.json
    gitlab_projects,              \* config['gitlab_projects']
    gitlab_to_airtable_field_map, \* GitLab field -> Airtable field name
    primary_key_selection,        \* config['options']['gitlab_primary_key']
    gitlab,                       \* upstream: project id -> issue listing
    table,                        \* downstream: the Airtable table, in listing order
    origin,                       \* history: who created table[i]
    run,                          \* number of the current run, 0 before the first
    history,                      \* outcomes of the finished runs
    pc,                           \* position of the current run
    error_logged,                 \* the ConfigurationError handler logged
    airtable_records_map,         \* get_airtable_records: key -> record
    projects,                     \* get_gitlab_tickets: id -> handle and floor
    issues_map,                   \* get_gitlab_tickets: id -> (key -> issue)
    idx,                          \* loop position in the current loop
    airtable_records_to_create,   \* sync: the create-list
    create_src,                   \* history: the ticket behind each list entry
    calls,                        \* history: remote calls issued by this run
    failed_call,                  \* history: the call that raised, if any
    table_at_start                \* history: the table when this run started

config_vars ==
    <<credentials, gitlab_projects, gitlab_to_airtable_field_map,
      primary_key_selection, gitlab>>

run_vars ==
    <<airtable_records_map, projects, issues_map, idx,
      airtable_records_to_create, create_src>>

vars ==
    <<credentials, gitlab_projects, gitlab_to_airtable_field_map,
      primary_key_selection, gitlab, table, origin, run, history, pc,
      error_logged, airtable_records_map, projects, issues_map, idx,
      airtable_records_to_create, create_src, calls, failed_call,
      table_at_start>>

\* main.py:39-42
primary_key_map(selection) ==
    CASE selection = "ticket_number" -> "iid"
      [] selection = "url" -> "web_url"
      [] OTHER -> None

gitlab_primary_key == primary_key_map(primary_key_selection)

airtable_primary_key ==
    IF gitlab_primary_key \in DOMAIN gitlab_to_airtable_field_map
    THEN gitlab_to_airtable_field_map[gitlab_primary_key]
    ELSE None

\* main.py:44-58: the chain that raises ConfigurationError.  The mapping has
\* six entries whatever the file holds, so "not ....values()" is never true.
ConfigurationErrorRaised ==
    \/ credentials.api_key = None
    \/ credentials.base_id = None
    \/ credentials.table_id = None
    \/ credentials.private_token = None
    \/ gitlab_projects = <<>>
    \/ DOMAIN gitlab_to_airtable_field_map = {}
    \/ primary_key_selection = None

\* ------------------------------------------------------ pure functions
EmptyRecord == [f \in {} |-> 0]

SetField(record_data, airtable_field, value) ==
    [f \in (DOMAIN record_data) \cup {airtable_field} |->
        IF f = airtable_field THEN value ELSE record_data[f]]

RECURSIVE ParseFields(_, _, _)
ParseFields(gitlab_ticket, field_map, n) ==
    IF n = 0 THEN EmptyRecord
    ELSE LET record_data == ParseFields(gitlab_ticket, field_map, n - 1)
             gitlab_field == GitlabFields[n]
             airtable_field == field_map[gitlab_field]
         IN  IF airtable_field # None
             THEN SetField(record_data, airtable_field, gitlab_ticket[gitlab_field])
             ELSE record_data

parse_ticket_to_record(gitlab_ticket) ==
    ParseFields(gitlab_ticket, gitlab_to_airtable_field_map, Len(GitlabFields))

\* record['fields'].get(airtable_primary_key)
FieldsGet(fields, name) == IF name \in DOMAIN fields THEN fields[name] ELSE 0

RECURSIVE RecordsMapOf(_, _)
RecordsMapOf(records, n) ==
    IF n = 0 THEN EmptyDict
    ELSE LET records_map == RecordsMapOf(records, n - 1)
             key == FieldsGet(records[n].fields, airtable_primary_key)
         IN  IF Truthy(key) THEN DictSet(records_map, key, records[n]) ELSE records_map

\* the floor test with >= in place of >
PassesFloorInclusive(issue, import_after) == issue.iid >= import_after

PassesFloor(issue, import_after) == issue.iid > import_after

FloorOf(import_after) == IF import_after = NoFloor THEN 0 ELSE import_after

\* the lookup result ignored: every ticket counts as missing
MissingFromAirtableAlways(records_map, key) == TRUE

\* not airtable_records_map.get(key): a stored record is a non-empty dict
MissingFromAirtable(records_map, key) == ~DictHas(records_map, key)

TicketKey(ticket) == ticket[gitlab_primary_key]

\* the outer loop left after its first project
TicketsOfFirstProject(by_project, n) ==
    IF n = 0 THEN <<>>
    ELSE [j \in 1..Len(by_project[1][2]) |-> <<by_project[1][1], by_project[1][2][j][2]>>]

\* the tickets of issues_map in iteration order, as <<project id, ticket>>
RECURSIVE TicketsOf(_, _)
TicketsOf(by_project, n) ==
    IF n = 0 THEN <<>>
    ELSE TicketsOf(by_project, n - 1) \o
         [j \in 1..Len(by_project[n][2]) |-> <<by_project[n][1], by_project[n][2][j][2]>>]

MissingTickets(by_project, records_map) ==
    SelectSeq(TicketsOf(by_project, Len(by_project)),
              LAMBDA t : MissingFromAirtable(records_map, TicketKey(t[2])))

\* ----------------------------------------------------------------- Init
Init ==
    /\ credentials \in Credentials
    /\ \E floors \in FloorChoices :
          /\ gitlab_projects =
                 [i \in 1..Len(floors) |-> [id |-> i, import_after |-> floors[i]]]
          /\ \E sizes \in [1..Len(floors) -> ListingSizes] :
                 gitlab = [p \in ProjectIds |->
                              IF p <= Len(floors) THEN IssueListing(p, sizes[p]) ELSE <<>>]
    /\ gitlab_to_airtable_field_map \in FieldMappings
    /\ primary_key_selection \in KeySelections
    /\ \E rows \in InitialTables :
          table = [i \in 1..Len(rows) |-> [id |-> i, fields |-> rows[i]]]
    /\ origin = [i \in 1..Len(table) |-> [run |-> 0, project |-> 0, iid |-> 0]]
    /\ run = 0
    /\ history = <<>>
    /\ pc = "idle"
    /\ error_logged = FALSE
    /\ airtable_records_map = EmptyDict
    /\ projects = EmptyDict
    /\ issues_map = EmptyDict
    /\ idx = 0
    /\ airtable_records_to_create = <<>>
    /\ create_src = <<>>
    /\ calls = <<>>
    /\ failed_call = "none"
    /\ table_at_start = table

\* ---------------------------------------------------------------- steps
\* the exception logged and dropped, as the ConfigurationError handler does
RaiseSwallowed(call) ==
    /\ pc' = "collect"
    /\ failed_call' = call

\* An exception leaves sync(): nothing catches it, the process ends.
Raise(call) ==
    /\ pc' = "aborted"
    /\ failed_call' = call

\* python main.py: the module body runs (the handler of ConfigurationError
\* only logs), then sync() is entered.
StartRun ==
    /\ pc \in {"idle", "done", "aborted"}
    /\ run < MaxRuns
    /\ run' = run + 1
    /\ history' = IF run = 0 THEN history ELSE Append(history, pc)
    /\ error_logged' = ConfigurationErrorRaised
    /\ pc' = "list_records"
    /\ airtable_records_map' = EmptyDict
    /\ projects' = EmptyDict
    /\ issues_map' = EmptyDict
    /\ idx' = 0
    /\ airtable_records_to_create' = <<>>
    /\ create_src' = <<>>
    /\ calls' = <<>>
    /\ failed_call' = "none"
    /\ table_at_start' = table
    /\ UNCHANGED <<config_vars, table, origin>>

\* get_airtable_records: table.all() returns
ListRecords ==
    /\ pc = "list_records"
    /\ calls' = Append(calls, "list_records")
    /\ airtable_records_map' = RecordsMapOf(table, Len(table))
    /\ idx' = 1
    /\ pc' = IF gitlab_projects # <<>> THEN "resolve_project" ELSE "collect"
    /\ UNCHANGED <<config_vars, table, origin, run, history, error_logged, projects,
                   issues_map, airtable_records_to_create, create_src, failed_call,
                   table_at_start>>

\* get_airtable_records: table.all() raises
ListRecordsFails ==
    /\ pc = "list_records"
    /\ calls' = Append(calls, "list_records")
    /\ Raise("list_records")
    /\ UNCHANGED <<config_vars, table, origin, run, history, error_logged, run_vars,
                   table_at_start>>

\* get_gitlab_tickets, first loop: gl.projects.get returns
ResolveProject ==
    /\ pc = "resolve_project"
    /\ calls' = Append(calls, "resolve_project")
    /\ LET project_config == gitlab_projects[idx]
       IN  projects' = DictSet(projects, project_config.id,
                               [project |-> project_config.id,
                                import_after |-> project_config.import_after])
    /\ IF idx < Len(gitlab_projects)
       THEN /\ idx' = idx + 1
            /\ pc' = pc
       ELSE /\ idx' = 1
            /\ pc' = "list_issues"
    /\ UNCHANGED <<config_vars, table, origin, run, history, error_logged,
                   airtable_records_map, issues_map, airtable_records_to_create,
                   create_src, failed_call, table_at_start>>

\* get_gitlab_tickets, first loop: gl.projects.get raises
ResolveProjectFails ==
    /\ pc = "resolve_project"
    /\ calls' = Append(calls, "resolve_project")
    /\ Raise("resolve_project")
    /\ UNCHANGED <<config_vars, table, origin, run, history, error_logged, run_vars,
                   table_at_start>>

\* the dict comprehension of main.py:109 over one listing
KeyedIssues(issues, import_after) ==
    LET kept == SelectSeq(issues, LAMBDA issue : PassesFloor(issue, import_after))
    IN  DictFromPairs([i \in 1..Len(kept) |-> <<TicketKey(kept[i]), kept[i]>>])

\* get_gitlab_tickets, second loop: project.issues.list returns.  With no
\* usable key field, getattr raises TypeError on the first issue kept.
ListIssues ==
    /\ pc = "list_issues"
    /\ calls' = Append(calls, "list_issues")
    /\ LET project_id == projects[idx][1]
           import_after == FloorOf(projects[idx][2].import_after)
           issues == gitlab[projects[idx][2].project]
       IN  IF /\ gitlab_primary_key = None
              /\ \E i \in 1..Len(issues) : PassesFloor(issues[i], import_after)
           THEN /\ Raise("getattr")
                /\ UNCHANGED <<issues_map, idx>>
           ELSE /\ issues_map' = DictSet(issues_map, project_id,
                                         KeyedIssues(issues, import_after))
                /\ failed_call' = failed_call
                /\ IF idx < Len(projects)
                   THEN /\ idx' = idx + 1
                        /\ pc' = pc
                   ELSE /\ idx' = 0
                        /\ pc' = "collect"
    /\ UNCHANGED <<config_vars, table, origin, run, history, error_logged,
                   airtable_records_map, projects, airtable_records_to_create,
                   create_src, table_at_start>>

\* get_gitlab_tickets, second loop: project.issues.list raises
ListIssuesFails ==
    /\ pc = "list_issues"
    /\ calls' = Append(calls, "list_issues")
    /\ Raise("list_issues")
    /\ UNCHANGED <<config_vars, table, origin, run, history, error_logged, run_vars,
                   table_at_start>>

\* sync: build the create-list, then branch on its length
CollectMissing ==
    /\ pc = "collect"
    /\ LET missing == MissingTickets(issues_map, airtable_records_map)
       IN  /\ create_src' = missing
           /\ airtable_records_to_create' =
                  [i \in 1..Len(missing) |-> parse_ticket_to_record(missing[i][2])]
           /\ pc' = IF Len(missing) > 0 THEN "create" ELSE "done"
    /\ idx' = 1
    /\ UNCHANGED <<config_vars, table, origin, run, history, error_logged,
                   airtable_records_map, projects, issues_map, calls, failed_call,
                   table_at_start>>

\* create_airtable_records: one table.create returns
CreateRecord ==
    /\ pc = "create"
    /\ calls' = Append(calls, "create")
    /\ table' = Append(table, [id |-> Len(table) + 1,
                               fields |-> airtable_records_to_create[idx]])
    /\ origin' = Append(origin, [run |-> run, project |-> create_src[idx][1],
                                 iid |-> create_src[idx][2].iid])
    /\ IF idx < Len(airtable_records_to_create)
       THEN /\ idx' = idx + 1
            /\ pc' = pc
       ELSE /\ idx' = idx
            /\ pc' = "done"
    /\ UNCHANGED <<config_vars, run, history, error_logged, airtable_records_map,
                   projects, issues_map, airtable_records_to_create, create_src,
                   failed_call, table_at_start>>

\* create_airtable_records: one table.create raises
CreateRecordFails ==
    /\ pc = "create"
    /\ calls' = Append(calls, "create")
    /\ Raise("create")
    /\ UNCHANGED <<config_vars, table, origin, run, history, error_logged, run_vars,
                   table_at_start>>

Next ==
    \/ StartRun
    \/ ListRecords
    \/ ListRecordsFails
    \/ ResolveProject
    \/ ResolveProjectFails
    \/ ListIssues
    \/ ListIssuesFails
    \/ CollectMissing
    \/ CreateRecord
    \/ CreateRecordFails

Spec == Init /\ [][Next]_vars

TypeOK ==
    /\ pc \in {"idle", "list_records", "resolve_project", "list_issues", "collect",
               "create", "done", "aborted"}
    /\ run \in 0..MaxRuns
    /\ Len(origin) = Len(table)
    /\ Len(create_src) = Len(airtable_records_to_create)

\* ------------------------------------------------- vocabulary of the claims
\* the create-list of the current run has been built
ListBuilt == pc \in {"create", "done"} \/ failed_call = "create"

Configured == 1..Len(gitlab_projects)

ConfiguredFloor(p) ==
    IF gitlab_projects[p].import_after = NoFloor THEN 0 ELSE gitlab_projects[p].import_after

\* key values held by the records the run listed
DownstreamKeys ==
    {table_at_start[i].fields[airtable_primary_key] :
        i \in {j \in 1..Len(table_at_start) :
                 /\ airtable_primary_key \in DOMAIN table_at_start[j].fields
                 /\ table_at_start[j].fields[airtable_primary_key] # 0}}

\* <<project, issue>> for the upstream issues above their project's floor
UpstreamTickets ==
    {t \in UNION {{<<p, gitlab[p][i]>> : i \in 1..Len(gitlab[p])} : p \in Configured} :
        t[2].iid > ConfiguredFloor(t[1])}

\* the name g is mapped to is written last by g
WrittenBy(g) ==
    /\ gitlab_to_airtable_field_map[GitlabFields[g]] # None
    /\ \A h \in (g + 1)..Len(GitlabFields) :
          gitlab_to_airtable_field_map[GitlabFields[h]] #
              gitlab_to_airtable_field_map[GitlabFields[g]]

MappedFrom(record, ticket) ==
    /\ DOMAIN record =
          {gitlab_to_airtable_field_map[GitlabFields[g]] : g \in 1..Len(GitlabFields)} \ {None}
    /\ \A g \in 1..Len(GitlabFields) :
          WrittenBy(g) =>
              record[gitlab_to_airtable_field_map[GitlabFields[g]]] = ticket[GitlabFields[g]]

UniqueKeys(records) ==
    \A i, j \in 1..Len(records) :
        (/\ i < j
         /\ airtable_primary_key \in DOMAIN records[i].fields
         /\ airtable_primary_key \in DOMAIN records[j].fields
         /\ records[i].fields[airtable_primary_key] # 0)
        => records[i].fields[airtable_primary_key] # records[j].fields[airtable_primary_key]

\* ------------------------------------------------------------------ C1
\* C1: a run that follows a run whose creates all succeeded, on the same
\* upstream issues, builds an empty create-list.
C1_NoDuplicateAcrossRuns ==
    (run >= 2 /\ history[run - 1] = "done" /\ ListBuilt)
        => airtable_records_to_create = <<>>

\* ------------------------------------------------------------------ C2
\* C2: when a create call of a run raises, the table is what it was when
\* the run started.
C2_BatchOrNothing ==
    failed_call = "create" => table = table_at_start

\* ------------------------------------------------------------------ C3
ClaimedConfigurationError ==
    \/ \E c \in DOMAIN credentials : credentials[c] = None
    \/ gitlab_projects = <<>>
    \/ primary_key_selection \notin {"ticket_number", "url"}
    \/ airtable_primary_key = None

\* C3: under a configuration error the run issues no remote call.
C3_ConfigErrorStopsRun ==
    ClaimedConfigurationError => calls = <<>>

\* ------------------------------------------------------------------ C4
\* C4: the create-list holds exactly one mapped record for every upstream
\* issue above its project's floor whose key value no listed downstream
\* record holds, and no other record.
C4_CreateListIsDifference ==
    ListBuilt =>
        /\ Range(create_src) =
              {t \in UpstreamTickets : t[2][gitlab_primary_key] \notin DownstreamKeys}
        /\ \A i, j \in 1..Len(create_src) : create_src[i] = create_src[j] => i = j
        /\ \A i \in 1..Len(create_src) :
              MappedFrom(airtable_records_to_create[i], create_src[i][2])

C4_Witness ==
    /\ pc = "done"
    /\ Len(airtable_records_to_create) >= 1
    /\ \E t \in UpstreamTickets :
          /\ t[2][gitlab_primary_key] \in DownstreamKeys
          /\ t \notin Range(create_src)

\* ------------------------------------------------------------------ C5
\* C5: in every record of the create-list, the field named by the key's
\* Airtable name holds the key value of the ticket the record was made from.
C5_KeyMapping ==
    (ListBuilt /\ airtable_primary_key # None) =>
        \A i \in 1..Len(create_src) :
            airtable_records_to_create[i][airtable_primary_key] =
                create_src[i][2][gitlab_primary_key]

\* ------------------------------------------------------------------ C6
\* C6: no issue whose iid is at most its project's floor has a record in
\* the create-list, under either key selection.
C6_FloorExcludes ==
    ListBuilt =>
        \A p \in Configured : \A i \in 1..Len(gitlab[p]) :
            gitlab[p][i].iid <= ConfiguredFloor(p)
                => <<p, gitlab[p][i]>> \notin Range(create_src)

C6_Witness ==
    /\ ListBuilt
    /\ primary_key_selection = "url"
    /\ \E p \in Configured :
          /\ \E i \in 1..Len(gitlab[p]) :
                /\ gitlab[p][i].iid = ConfiguredFloor(p)
                /\ <<p, gitlab[p][i]>> \notin Range(create_src)
          /\ \E i \in 1..Len(gitlab[p]) : <<p, gitlab[p][i]>> \in Range(create_src)

\* ------------------------------------------------------------------ C7
AllKeysListed ==
    \A n \in 1..Len(issues_map) : \A j \in 1..Len(issues_map[n][2]) :
        DictHas(airtable_records_map, issues_map[n][2][j][2][gitlab_primary_key])

\* C7: when every ticket of the upstream snapshot has its key in the
\* downstream snapshot, the create-list is empty and no create call is made.
C7_EmptyDiffNoWrite ==
    (ListBuilt /\ AllKeysListed) =>
        /\ airtable_records_to_create = <<>>
        /\ "create" \notin Range(calls)
        /\ table = table_at_start

C7_Witness ==
    /\ pc = "done"
    /\ AllKeysListed
    /\ \E n \in 1..Len(issues_map) : issues_map[n][2] # EmptyDict

\* ------------------------------------------------------------------ C8
CallsBefore(n) == SubSeq(calls, 1, n - 1)

Count(s, x) == Cardinality({i \in 1..Len(s) : s[i] = x})

\* C8: a run whose record listing, project resolution or issue listing
\* raised makes no create call, and a create call comes only after the
\* record listing, every project resolution and every issue listing.
C8_FetchFailureNoWrite ==
    /\ failed_call \in {"list_records", "resolve_project", "list_issues"}
          => /\ pc = "aborted"
             /\ "create" \notin Range(calls)
             /\ table = table_at_start
    /\ \A n \in 1..Len(calls) :
          calls[n] = "create"
              => /\ ListBuilt
                 /\ Count(CallsBefore(n), "list_records") = 1
                 /\ Count(CallsBefore(n), "resolve_project") = Len(gitlab_projects)
                 /\ Count(CallsBefore(n), "list_issues") = Len(gitlab_projects)

C8_Witness ==
    /\ failed_call = "list_issues"
    /\ pc = "aborted"
    /\ \E n \in 1..Len(issues_map) :
          \E j \in 1..Len(issues_map[n][2]) :
              ~DictHas(airtable_records_map, issues_map[n][2][j][1])

\* ------------------------------------------------------------------ C9
\* C9: with runs one at a time, no upstream issue gets records from two
\* different runs that carry the same key value.
C9_NoDuplicateWhenSequential ==
    \A i, j \in 1..Len(table) :
        (/\ i < j
         /\ origin[i].run # 0
         /\ origin[j].run # origin[i].run
         /\ origin[i].project = origin[j].project
         /\ origin[i].iid = origin[j].iid
         /\ airtable_primary_key \in DOMAIN table[i].fields)
        => table[i].fields[airtable_primary_key] # table[j].fields[airtable_primary_key]

\* ----------------------------------------------------------------- C10
\* C10: a run that completes on a table with at most one record per key
\* value leaves a table with at most one record per key value.
C10_KeyUniquenessPreserved ==
    (pc = "done" /\ UniqueKeys(table_at_start)) => UniqueKeys(table)

====
